---- MODULE Spec2Model ----
(***************************************************************************)
(* Model of the PDF service in src/server.js: the admission queue          *)
(* (acquireSlot / releaseSlot), the shared browser handle (getBrowser),     *)
(* the Google Fonts CSS cache (getFontCSS, prewarmFontCache) and the        *)
(* POST /api/pdf handler that composes them.                                *)
(*                                                                         *)
(* One action is one turn of the Node.js event loop: the code that runs     *)
(* from the moment an awaited I/O operation (or a timer, or an incoming     *)
(* request) completes up to the next await of a real I/O operation.         *)
(***************************************************************************)
EXTENDS Integers, Sequences, FiniteSets, TLC

\* ---------------------------------------------------------------- bounds
NumJobs == 3        \* POST /api/pdf requests in a run
MaxCapacity == 2    \* largest configured MAX_CONCURRENT explored
MaxHandles == 2     \* browsers puppeteer.launch may hand out in a run

\* ------------------------------------------------------------- constants
Null == 0           \* `let browser;` / `let page;` : no object yet
Warm == 0           \* the pre-warm caller of getBrowser in app.listen

Jobs == 1..NumJobs
\* The GET /debug/fonts request, the third caller of getBrowser (178).
Debug == NumJobs + 1
Callers == Jobs \cup {Warm, Debug}
Handles == 1..MaxHandles

\* Keys of FONT_URLS: one of the six keys the render handler fetches stands
\* for all of them (the cache treats every key alike and independently).
FONT_URLS == {"Roboto"}
\* What a request may send as fontFamily: a fetched key, and 'Inter', which
\* the handler never fetches (261), standing for every value it skips.
FontInputs == {"Roboto", "Inter"}
\* Texts a fetch of a font URL may produce.
CssTexts == {"cssA", "cssB"}
Absent == "absent"      \* fontCSSCache.has(k) is false
Empty == "empty"        \* the '' getFontCSS returns on a failed fetch
Unset == "unset"        \* getFontCSS not called by this job

VARIABLES
    MAX_CONCURRENT,  \* parseInt(process.env.MAX_CONCURRENT || '3')
    listening,       \* app.listen's callback has run
    activeJobs,      \* let activeJobs
    waitQueue,       \* const waitQueue: resolve functions, by job
    browser,         \* let browser: Null or a handle
    hstate,          \* each handle: none / up / frozen / dead
    fontCSSCache,    \* const fontCSSCache: key -> text or Absent
    warmFetch,       \* prewarmFontCache's fetches: key -> idle/inflight/done
    pc,              \* where each caller's handler is suspended
    b,               \* const b = await getBrowser()
    closing,         \* the handle whose close() a caller awaits
    page,            \* let page: Null or the handle it was opened on
    fontFamily,      \* req.body.fontFamily, drawn where it is first read (261)
    fontCSS,         \* what getFontCSS returned to the job
    res,             \* HTTP status sent, or "none"
    released,        \* history: releaseSlot calls made by the job
    ticket           \* history: order of arrival in waitQueue (0: none)

adm == <<activeJobs, waitQueue>>
brw == <<browser, hstate>>
fnt == <<fontCSSCache, warmFetch>>
font == <<fontFamily, fontCSS>>
cfg == <<MAX_CONCURRENT, listening>>
vars == <<MAX_CONCURRENT, listening, activeJobs, waitQueue, browser, hstate,
          fontCSSCache, warmFetch, pc, b, closing, page, fontFamily, fontCSS,
          res, released, ticket>>

Init ==
    /\ MAX_CONCURRENT \in 1..MaxCapacity
    /\ listening = FALSE
    /\ activeJobs = 0
    /\ waitQueue = <<>>
    /\ browser = Null
    /\ hstate = [h \in Handles |-> "none"]
    /\ fontCSSCache = [k \in FONT_URLS |-> Absent]
    /\ warmFetch = [k \in FONT_URLS |-> "idle"]
    /\ pc = [p \in Callers |-> "idle"]
    /\ b = [p \in Callers |-> Null]
    /\ closing = [p \in Callers |-> Null]
    /\ page = [j \in Jobs |-> Null]
    /\ fontFamily = [j \in Jobs |-> "Inter"]
    /\ fontCSS = [j \in Jobs |-> Unset]
    /\ res = [j \in Jobs |-> "none"]
    /\ released = [j \in Jobs |-> 0]
    /\ ticket = [j \in Jobs |-> 0]

\* ----------------------------------------------------------- admission
\* Mutant of SlotFree: the comparison off by one.
SlotFree_OffByOne == activeJobs <= MAX_CONCURRENT

\* server.js:68  `activeJobs < MAX_CONCURRENT`
SlotFree == activeJobs < MAX_CONCURRENT

\* Mutant of Resolved: the resolve function is called and does nothing.
Resolved_Lost(k) == pc[k]

\* Mutant of Resolved: a transferred slot wakes the handler even after its
\* timeout has fired.
Resolved_WakesTimedOut(k) == "admitted"

\* Calling a queued resolve function (80). The job awaits
\* Promise.race([acquireSlot(), slotTimeout]) (228): if the timer has
\* already rejected the race the job has answered 504 and returned, and
\* resolving does nothing.
Resolved(k) == IF pc[k] = "waiting" THEN "admitted" ELSE pc[k]

\* The history of arrivals: a new ticket is later than every ticket held.
NextTicket ==
    1 + CHOOSE m \in 0..NumJobs :
            /\ \A k \in Jobs : ticket[k] <= m
            /\ m = 0 \/ \E k \in Jobs : ticket[k] = m

\* server.js:66-75
acquireSlot(j) ==
    IF SlotFree
    THEN /\ activeJobs' = activeJobs + 1
         /\ pc' = [pc EXCEPT ![j] = "admitted"]
         /\ UNCHANGED <<waitQueue, ticket>>
    ELSE /\ waitQueue' = Append(waitQueue, j)
         /\ ticket' = [ticket EXCEPT ![j] = NextTicket]
         /\ pc' = [pc EXCEPT ![j] = "waiting"]
         /\ UNCHANGED activeJobs

\* Mutant of Shift: pop() in place of shift().
Shift_Pop(q) == [next |-> q[Len(q)], rest |-> SubSeq(q, 1, Len(q) - 1)]

\* server.js:79  `waitQueue.shift()`: the element removed and what is left.
Shift(q) == [next |-> Head(q), rest |-> Tail(q)]

\* Mutant of releaseSlot: activeJobs is decremented on a transfer too.
releaseSlot_DecrementsOnTransfer(j) ==
    /\ released' = [released EXCEPT ![j] = @ + 1]
    /\ activeJobs' = activeJobs - 1
    /\ IF Len(waitQueue) > 0
       THEN LET next == Shift(waitQueue).next IN
            /\ waitQueue' = Shift(waitQueue).rest
            /\ pc' = [pc EXCEPT ![j] = "done", ![next] = Resolved(next)]
       ELSE /\ pc' = [pc EXCEPT ![j] = "done"]
            /\ UNCHANGED waitQueue

\* server.js:77-84, called by job j at the end of its finally block; the
\* handler then returns.
releaseSlot(j) ==
    /\ released' = [released EXCEPT ![j] = @ + 1]
    /\ IF Len(waitQueue) > 0
       THEN LET next == Shift(waitQueue).next IN
            /\ waitQueue' = Shift(waitQueue).rest
            /\ pc' = [pc EXCEPT ![j] = "done", ![next] = Resolved(next)]
            /\ UNCHANGED activeJobs
       ELSE /\ activeJobs' = activeJobs - 1
            /\ pc' = [pc EXCEPT ![j] = "done"]
            /\ UNCHANGED waitQueue

\* ------------------------------------------------------------- browser
\* browser.connected
Connected(h) == hstate[h] \in {"up", "frozen"}

\* Mutant of NeedsLaunch: the connected test dropped.
NeedsLaunch_NullOnly == browser = Null

\* server.js:46  `!browser || !browser.connected`
NeedsLaunch == browser = Null \/ ~Connected(browser)

\* What the caller does with the browser getBrowser returned: the render
\* handler calls b.newPage() (239), the warm-up drops it (354), the font
\* diagnostics call b.newPage() (179).
AfterGetBrowser(p) ==
    IF p = Warm THEN "done" ELSE IF p = Debug THEN "dbg_newPage" ELSE "newPage"
Kept(p, h) == IF p = Warm THEN Null ELSE h

\* server.js:45-58, up to the first await (or to the return when the
\* stored handle is connected).
getBrowser(p) ==
    IF NeedsLaunch
    THEN IF browser # Null
         THEN /\ pc' = [pc EXCEPT ![p] = "gb_close"]
              /\ closing' = [closing EXCEPT ![p] = browser]
              /\ UNCHANGED b
         ELSE /\ pc' = [pc EXCEPT ![p] = "gb_launch"]
              /\ UNCHANGED <<b, closing>>
    ELSE /\ b' = [b EXCEPT ![p] = Kept(p, browser)]
         /\ pc' = [pc EXCEPT ![p] = AfterGetBrowser(p)]
         /\ UNCHANGED closing

\* What `await h.close()` leaves of handle h: the process is terminated
\* (on a dead one close may throw; both callers swallow it).
AfterClose(h) == [hstate EXCEPT ![h] = "dead"]

\* ----------------------------------------------------- startup (listen)
\* server.js:137
CacheHas(k) == fontCSSCache[k] # Absent

\* server.js:351-360 with prewarmFontCache (152-155): getBrowser() and one
\* getFontCSS(k) per key of FONT_URLS are started in the same turn.
Listen ==
    /\ ~listening
    /\ listening' = TRUE
    /\ getBrowser(Warm)
    /\ warmFetch' = [k \in FONT_URLS |->
                        IF CacheHas(k) THEN "done" ELSE "inflight"]
    /\ UNCHANGED <<MAX_CONCURRENT, adm, brw, fontCSSCache, page, font, res,
                   released, ticket>>

\* --------------------------------------------------------- GET /health
\* server.js:159-166: the body the handler sends; it changes nothing.
health ==
    [status |-> "ok",
     activeJobs |-> activeJobs,
     queued |-> Len(waitQueue),
     browserConnected |-> IF browser = Null THEN FALSE ELSE Connected(browser)]

\* ------------------------------------------------------- POST /api/pdf
\* process.env.PDF_API_KEY as deployed with a shared secret.
API_KEY == "secret"
ApiKeyHeaders == {"secret", "wrong", "undefined"}

\* Mutant of Reject: the checks moved after acquireSlot, the rejection
\* leaving with the slot taken.
Reject_AfterAcquire(j, status) ==
    /\ res' = [res EXCEPT ![j] = status]
    /\ pc' = [pc EXCEPT ![j] = "done"]
    /\ activeJobs' = activeJobs + 1
    /\ UNCHANGED <<waitQueue, ticket>>

\* server.js:213, 218  `return res.status(...).json(...)`
Reject(j, status) ==
    /\ res' = [res EXCEPT ![j] = status]
    /\ pc' = [pc EXCEPT ![j] = "done"]
    /\ UNCHANGED <<adm, ticket>>

\* server.js:209-234 up to the await of the race: authentication, input
\* validation, acquireSlot.
PostPdf(j) ==
    /\ listening
    /\ pc[j] = "idle"
    /\ \E apiKey \in ApiKeyHeaders, html \in BOOLEAN :
         IF API_KEY # "" /\ apiKey # API_KEY
         THEN Reject(j, "401")
         ELSE IF ~html
         THEN Reject(j, "400")
         ELSE /\ acquireSlot(j)
              /\ UNCHANGED res
    /\ UNCHANGED <<cfg, brw, fnt, b, closing, page, font, released>>

\* server.js:224-232: the 90 s timer rejects the race while the job is
\* still queued; the handler answers 504 and returns. The resolve function
\* stays in waitQueue.
SlotTimeout(j) ==
    /\ pc[j] = "waiting"
    /\ pc' = [pc EXCEPT ![j] = "done"]
    /\ res' = [res EXCEPT ![j] = "504"]
    /\ ticket' = [ticket EXCEPT ![j] = 0]
    /\ UNCHANGED <<cfg, adm, brw, fnt, b, closing, page, font, released>>

\* server.js:236-238: the race resolved, the handler calls getBrowser().
StartRender(j) ==
    /\ pc[j] = "admitted"
    /\ getBrowser(j)
    /\ UNCHANGED <<cfg, adm, brw, fnt, page, font, res, released, ticket>>

\* The handler returns: its locals are gone.
Return(j) ==
    /\ b' = [b EXCEPT ![j] = Null]
    /\ page' = [page EXCEPT ![j] = Null]
    /\ ticket' = [ticket EXCEPT ![j] = 0]

\* Mutant of finally: the slot is released and the page left open.
finally_NoClose(j) == releaseSlot(j) /\ Return(j)

\* Mutant of finally: releaseSlot() moved inside `if (page)`.
finally_ReleaseOnlyWithPage(j) ==
    IF page[j] # Null
    THEN /\ pc' = [pc EXCEPT ![j] = "page_close"]
         /\ UNCHANGED <<adm, released, b, page, ticket>>
    ELSE /\ pc' = [pc EXCEPT ![j] = "done"]
         /\ UNCHANGED <<adm, released>>
         /\ Return(j)

\* server.js:313-318: the finally block up to its await, or to the end.
finally(j) ==
    IF page[j] # Null
    THEN /\ pc' = [pc EXCEPT ![j] = "page_close"]
         /\ UNCHANGED <<adm, released, b, page, ticket>>
    ELSE releaseSlot(j) /\ Return(j)

\* fontCSS (252) is local to the try block, and nothing reads fontFamily or
\* fontCSS once the document is composed (265-279).
FontsDropped(j) ==
    /\ fontFamily' = [fontFamily EXCEPT ![j] = "Inter"]
    /\ fontCSS' = [fontCSS EXCEPT ![j] = Unset]

\* Mutant of CrashClass: every error resets the browser.
CrashClass_All(cls) == TRUE

\* server.js:306: the test on error.message; cls is the class of the text.
CrashClass(cls) == cls = "crash"

\* Mutant of Invalidated: the handle is closed but the reference is kept.
Invalidated_Kept == browser

\* server.js:308  `browser = null`
Invalidated == Null

\* server.js:303-312: the catch block for an error of class cls, up to the
\* await of browser.close(), or through to the finally block.
catch(j, cls) ==
    /\ FontsDropped(j)
    /\ IF CrashClass(cls) /\ browser # Null
       THEN /\ pc' = [pc EXCEPT ![j] = "catch_close"]
            /\ closing' = [closing EXCEPT ![j] = browser]
            /\ UNCHANGED <<adm, browser, res, released, b, page, ticket>>
       ELSE /\ browser' = IF CrashClass(cls) THEN Invalidated ELSE browser
            /\ res' = [res EXCEPT ![j] = "500"]
            /\ finally(j)
            /\ UNCHANGED closing

\* server.js:307-312: browser.close() settled; browser = null; 500; finally.
CatchCloseDone(j) ==
    /\ pc[j] = "catch_close"
    /\ hstate' = AfterClose(closing[j])
    /\ closing' = [closing EXCEPT ![j] = Null]
    /\ browser' = Invalidated
    /\ res' = [res EXCEPT ![j] = "500"]
    /\ finally(j)
    /\ UNCHANGED <<cfg, fnt, font>>

\* server.js:48-50: browser.close() inside getBrowser settled (a throw is
\* swallowed); puppeteer.launch is called.
GbCloseDone(p) ==
    /\ pc[p] = "gb_close"
    /\ hstate' = AfterClose(closing[p])
    /\ closing' = [closing EXCEPT ![p] = Null]
    /\ pc' = [pc EXCEPT ![p] = "gb_launch"]
    /\ UNCHANGED <<cfg, adm, browser, fnt, b, page, font, res, released,
                   ticket>>

\* The handle puppeteer.launch hands out next.
FreshHandle ==
    CHOOSE h \in Handles :
        hstate[h] = "none" /\ \A g \in Handles : g < h => hstate[g] # "none"

\* server.js:50-57: puppeteer.launch resolved; browser = <new>; return browser.
LaunchOk(p) ==
    /\ pc[p] = "gb_launch"
    /\ \E h \in Handles : hstate[h] = "none"
    /\ hstate' = [hstate EXCEPT ![FreshHandle] = "up"]
    /\ browser' = FreshHandle
    /\ b' = [b EXCEPT ![p] = Kept(p, FreshHandle)]
    /\ pc' = [pc EXCEPT ![p] = AfterGetBrowser(p)]
    /\ UNCHANGED <<cfg, adm, fnt, closing, page, font, res, released, ticket>>

ErrorClasses == {"crash", "other"}

\* puppeteer.launch rejected: getBrowser throws into the caller, the render
\* handler's catch (303), the warm-up's .catch (359) or the font
\* diagnostics' catch (202), which answers 500.
LaunchFail(p) ==
    /\ pc[p] = "gb_launch"
    /\ IF p \in {Warm, Debug}
       THEN /\ pc' = [pc EXCEPT ![p] = "done"]
            /\ UNCHANGED <<adm, browser, closing, res, released, b, page,
                           font, ticket>>
       ELSE \E cls \in ErrorClasses : catch(p, cls)
    /\ UNCHANGED <<cfg, hstate, fnt>>

\* The awaited renderer calls of the try block, in order (239-293); "setup"
\* is setJavaScriptEnabled then setViewport (242-245).
PageOps == {"newPage", "setup", "setContent", "pdf"}

\* server.js:239-242: b.newPage() resolved; setJavaScriptEnabled is called.
NewPageOk(j) ==
    /\ pc[j] = "newPage"
    /\ hstate[b[j]] = "up"
    /\ page' = [page EXCEPT ![j] = b[j]]
    /\ pc' = [pc EXCEPT ![j] = "setup"]
    /\ UNCHANGED <<cfg, adm, brw, fnt, b, closing, font, res, released,
                   ticket>>

\* server.js:261  `fontFamily && fontFamily !== 'Inter' && FONT_URLS[fontFamily]`
WantsFont(ff) == ff # "Inter" /\ ff \in FONT_URLS

\* Mutant of StoreFetched: the failure is remembered as an empty entry.
StoreFetched_CachesEmpty(k, r) == [fontCSSCache EXCEPT ![k] = r]

\* server.js:143-147: the cache after a fetch of key k ended with r
\* (a text, or Empty for a rejected fetch).
StoreFetched(k, r) ==
    IF r = Empty THEN fontCSSCache ELSE [fontCSSCache EXCEPT ![k] = r]

\* server.js:242-263: setJavaScriptEnabled and setViewport resolved; the
\* fonts are composed: getFontCSS returns from the cache and setContent is
\* called (282), or getFontCSS awaits a fetch (135-140).
SetupOk(j) ==
    /\ pc[j] = "setup"
    /\ hstate[b[j]] = "up"
    /\ \E ff \in FontInputs :
         /\ fontFamily' = [fontFamily EXCEPT ![j] = ff]
         /\ IF WantsFont(ff)
            THEN IF CacheHas(ff)
                 THEN /\ fontCSS' = [fontCSS EXCEPT ![j] = fontCSSCache[ff]]
                      /\ pc' = [pc EXCEPT ![j] = "setContent"]
                 ELSE /\ pc' = [pc EXCEPT ![j] = "fetchFont"]
                      /\ UNCHANGED fontCSS
            ELSE /\ pc' = [pc EXCEPT ![j] = "setContent"]
                 /\ UNCHANGED fontCSS
    /\ UNCHANGED <<cfg, adm, brw, fnt, b, closing, page, res, released,
                   ticket>>

\* server.js:140-148 for the job's getFontCSS call, then 265-285:
\* page.setContent is called.
FetchDone(j) ==
    /\ pc[j] = "fetchFont"
    /\ \E r \in CssTexts \cup {Empty} :
         /\ fontCSSCache' = StoreFetched(fontFamily[j], r)
         /\ fontCSS' = [fontCSS EXCEPT ![j] = r]
    /\ pc' = [pc EXCEPT ![j] = "setContent"]
    /\ UNCHANGED <<cfg, adm, brw, warmFetch, b, closing, page, fontFamily,
                   res, released, ticket>>

\* server.js:140-148 for one of prewarmFontCache's getFontCSS calls.
WarmFetchDone(k) ==
    /\ warmFetch[k] = "inflight"
    /\ \E r \in CssTexts \cup {Empty} : fontCSSCache' = StoreFetched(k, r)
    /\ warmFetch' = [warmFetch EXCEPT ![k] = "done"]
    /\ UNCHANGED <<cfg, adm, brw, pc, b, closing, page, font, res, released,
                   ticket>>

\* server.js:282-288: setContent resolved; page.pdf is called.
SetContentOk(j) ==
    /\ pc[j] = "setContent"
    /\ hstate[b[j]] = "up"
    /\ pc' = [pc EXCEPT ![j] = "pdf"]
    /\ FontsDropped(j)
    /\ UNCHANGED <<cfg, adm, brw, fnt, b, closing, page, res, released,
                   ticket>>

\* server.js:288-302, 313-316: page.pdf resolved; the PDF is sent; finally.
PdfOk(j) ==
    /\ pc[j] = "pdf"
    /\ hstate[b[j]] = "up"
    /\ res' = [res EXCEPT ![j] = "200"]
    /\ finally(j)
    /\ UNCHANGED <<cfg, brw, fnt, closing, font>>

\* A renderer call of the try block rejected. A frozen browser answers
\* nothing; only setContent, called with timeout: 30000 (284), then
\* rejects, with puppeteer's navigation-timeout text.
OpFails(j) ==
    /\ pc[j] \in PageOps
    /\ \E cls \in ErrorClasses :
         /\ hstate[b[j]] = "frozen" => pc[j] = "setContent" /\ cls = "other"
         /\ catch(j, cls)
    /\ UNCHANGED <<cfg, hstate, fnt>>

\* server.js:315-317: page.close() settled (a rejection is swallowed);
\* releaseSlot().
PageCloseDone(j) ==
    /\ pc[j] = "page_close"
    /\ hstate[page[j]] # "frozen"
    /\ releaseSlot(j)
    /\ Return(j)
    /\ UNCHANGED <<cfg, brw, fnt, closing, font, res>>

\* ----------------------------------------------------- GET /debug/fonts
\* server.js:170-178: the request arrives; the fc-list commands run and
\* getBrowser() is called. No slot is acquired.
DebugFonts ==
    /\ listening
    /\ pc[Debug] = "idle"
    /\ getBrowser(Debug)
    /\ UNCHANGED <<cfg, adm, brw, fnt, page, font, res, released, ticket>>

\* The awaited renderer calls of the handler, in order (179-192).
DebugOps == {"dbg_newPage", "dbg_setContent", "dbg_evaluate", "dbg_close"}
\* The positions at which the page b.newPage() yielded (179) is open;
\* "dbg_leaked" is the handler returned through its catch with it.
DebugPageAt == {"dbg_setContent", "dbg_evaluate", "dbg_close", "dbg_leaked"}

DebugOpNext(at) ==
    CASE at = "dbg_newPage" -> "dbg_setContent"
      [] at = "dbg_setContent" -> "dbg_evaluate"
      [] at = "dbg_evaluate" -> "dbg_close"
      [] at = "dbg_close" -> "done"

\* server.js:179-201: the awaited call resolved; the next one is made, or
\* after page.close() the report is sent.
DebugOpOk ==
    /\ pc[Debug] \in DebugOps
    /\ hstate[b[Debug]] = "up"
    /\ pc' = [pc EXCEPT ![Debug] = DebugOpNext(pc[Debug])]
    /\ b' = [b EXCEPT ![Debug] = IF pc[Debug] = "dbg_close" THEN Null ELSE @]
    /\ UNCHANGED <<cfg, adm, brw, fnt, closing, page, font, res, released,
                   ticket>>

\* server.js:202-204: an awaited call rejected; the catch answers 500 and
\* the handler returns. There is no finally: a page already opened is not
\* closed. On a browser that does not answer only setContent rejects (its
\* default navigation timeout).
DebugOpFails ==
    /\ pc[Debug] \in DebugOps
    /\ hstate[b[Debug]] = "frozen" => pc[Debug] = "dbg_setContent"
    /\ IF pc[Debug] = "dbg_newPage"
       THEN /\ pc' = [pc EXCEPT ![Debug] = "done"]
            /\ b' = [b EXCEPT ![Debug] = Null]
       ELSE /\ pc' = [pc EXCEPT ![Debug] = "dbg_leaked"]
            /\ UNCHANGED b
    /\ UNCHANGED <<cfg, adm, brw, fnt, closing, page, font, res, released,
                   ticket>>

\* ------------------------------------------------------- the environment
\* The browser process dies or the connection drops: connected is false.
BrowserDisconnect(h) ==
    /\ Connected(h)
    /\ hstate' = [hstate EXCEPT ![h] = "dead"]
    /\ UNCHANGED <<cfg, adm, browser, fnt, pc, b, closing, page, font, res,
                   released, ticket>>

\* The browser process stops answering; it stays connected.
BrowserFreeze(h) ==
    /\ hstate[h] = "up"
    /\ hstate' = [hstate EXCEPT ![h] = "frozen"]
    /\ UNCHANGED <<cfg, adm, browser, fnt, pc, b, closing, page, font, res,
                   released, ticket>>

\* ------------------------------------------------------- specification
\* The steps of job j's handler once the request is queued or admitted:
\* every completion it awaits in 236-318.
Progress(j) ==
    \/ StartRender(j)
    \/ NewPageOk(j)
    \/ SetupOk(j)
    \/ FetchDone(j)
    \/ SetContentOk(j)
    \/ PdfOk(j)
    \/ OpFails(j)
    \/ CatchCloseDone(j)
    \/ PageCloseDone(j)
    \/ GbCloseDone(j)
    \/ LaunchOk(j)
    \/ LaunchFail(j)

JobNext(j) ==
    \/ PostPdf(j)
    \/ SlotTimeout(j)
    \/ Progress(j)

Next ==
    \/ Listen
    \/ \E j \in Jobs : JobNext(j)
    \/ GbCloseDone(Warm) \/ LaunchOk(Warm) \/ LaunchFail(Warm)
    \/ \E k \in FONT_URLS : WarmFetchDone(k)
    \/ \E h \in Handles : BrowserDisconnect(h) \/ BrowserFreeze(h)

Spec == Init /\ [][Next]_vars

\* Runs in which no 90 s admission timer fires (225) and no browser stops
\* answering, and in which every completion a handler awaits arrives.
NextNoTimeout ==
    \/ Listen
    \/ \E j \in Jobs : PostPdf(j) \/ Progress(j)
    \/ GbCloseDone(Warm) \/ LaunchOk(Warm) \/ LaunchFail(Warm)
    \/ \E k \in FONT_URLS : WarmFetchDone(k)
    \/ \E h \in Handles : BrowserDisconnect(h)

\* The smallest deployment in which requests queue: MAX_CONCURRENT=1.
InitSingleSlot == Init /\ MAX_CONCURRENT = 1

\* The same runs with a font diagnostics request added.
DebugNext ==
    \/ DebugFonts
    \/ GbCloseDone(Debug) \/ LaunchOk(Debug) \/ LaunchFail(Debug)
    \/ DebugOpOk
    \/ DebugOpFails

DebugSpec == InitSingleSlot /\ [][NextNoTimeout \/ DebugNext]_vars

FairSpec ==
    /\ InitSingleSlot
    /\ [][NextNoTimeout]_vars
    /\ \A j \in Jobs : WF_vars(Progress(j))

\* ------------------------------------------------------------- claims
\* Jobs that hold a slot: acquireSlot has resolved for them (228) and
\* they have not yet called releaseSlot (317).
HoldingPcs == {"admitted", "gb_close", "gb_launch", "newPage", "setup",
               "fetchFont", "setContent", "pdf", "catch_close", "page_close"}
Holders == {j \in Jobs : pc[j] \in HoldingPcs}
Waiting == {j \in Jobs : pc[j] = "waiting"}
InQueue(j) == \E i \in 1..Len(waitQueue) : waitQueue[i] = j

\* C1: the number of jobs granted a slot and not yet released never
\* exceeds MAX_CONCURRENT: every holder is counted in activeJobs, and
\* activeJobs never exceeds MAX_CONCURRENT.
C1_HoldersWithinCapacity ==
    /\ Cardinality(Holders) <= activeJobs
    /\ activeJobs <= MAX_CONCURRENT

\* C1 witness: the capacity of 2 is used up and a further request queues.
C1_Witness ==
    /\ MAX_CONCURRENT = 2
    /\ Cardinality(Holders) = 2
    /\ Waiting # {}

\* C2: when releaseSlot finds the ticket of a timed-out job at the head of
\* the queue, the slot goes to a live waiter or the outstanding count is
\* decremented; it is never dropped.
C2_TimedOutTicketForwardsSlot ==
    [][\A j \in Jobs :
         ( /\ released'[j] = released[j] + 1
           /\ Len(waitQueue) > 0
           /\ pc[Head(waitQueue)] # "waiting" )
         => \/ activeJobs' = activeJobs - 1
            \/ \E k \in Jobs : pc[k] = "waiting" /\ pc'[k] = "admitted"]_vars

\* C3: a job that was admitted calls releaseSlot exactly once: never
\* twice, not before its handler ends, and once when it has ended with a
\* PDF (200) or a failure (500).
C3_ReleasedExactlyOnce ==
    \A j \in Jobs :
        /\ released[j] <= 1
        /\ j \in Holders => released[j] = 0
        /\ (pc[j] = "done" /\ res[j] \in {"200", "500"}) => released[j] = 1

\* C3 witness: one job ended with a PDF and one with a failure that left no
\* page open, both having released.
C3_Witness ==
    \E j, k \in Jobs :
        /\ pc[j] = "done" /\ res[j] = "200" /\ released[j] = 1
        /\ pc[k] = "done" /\ res[k] = "500" /\ released[k] = 1

\* C4: once no job holds a slot and no live job waits, activeJobs is 0 (so
\* the next MAX_CONCURRENT acquireSlot calls are granted at once), also
\* after jobs have failed with QUEUE_TIMEOUT.
C4_PoolUnaffectedByTimeout ==
    (Holders = {} /\ Waiting = {}) => activeJobs = 0

\* C5: at most one puppeteer.launch is in progress at any time.
Launching == {p \in Callers : pc[p] = "gb_launch"}
C5_SingleConstruction == Cardinality(Launching) <= 1

\* C6: at most one fetch per key is in flight at any time.
Fetching(k) == {j \in Jobs : pc[j] = "fetchFont" /\ fontFamily[j] = k}
FetchesInFlight(k) ==
    Cardinality(Fetching(k)) + (IF warmFetch[k] = "inflight" THEN 1 ELSE 0)
C6_SingleFlightFetch == \A k \in FONT_URLS : FetchesInFlight(k) <= 1

\* C7: a job that queued later is never granted a slot while a job that
\* queued earlier still waits.
C7_FifoGrant ==
    \A a, c \in Jobs :
        (pc[a] = "waiting" /\ ticket[c] > ticket[a]) => pc[c] = "waiting"

\* C7 witness: two jobs queued; the earlier one has been granted a slot by
\* a release and the later one still waits.
C7_Witness ==
    \E a, c \in Jobs :
        /\ ticket[a] > 0 /\ ticket[c] > ticket[a]
        /\ a \in Holders
        /\ pc[c] = "waiting"

\* C8: the step that ends a job's handling of a crash-class error leaves
\* the job failed (500) and on its way out (never back to getBrowser), the
\* shared handle absent and the handle it closed dead; a getBrowser call
\* made while the handle is absent launches; a handle a launch returns is
\* new; and every handle getBrowser returns is connected when returned.
CrashHandled(j) == pc[j] = "catch_close" /\ pc'[j] # "catch_close"
C8_CrashInvalidatesAndNextLaunches ==
    [][\A j \in Jobs :
         /\ CrashHandled(j) =>
               /\ res'[j] = "500"
               /\ pc'[j] \in {"page_close", "done"}
               /\ browser' = Null
               /\ closing[j] # Null => hstate'[closing[j]] = "dead"
         /\ (pc[j] = "admitted" /\ pc'[j] # "admitted" /\ browser = Null)
               => pc'[j] = "gb_launch"
         /\ (pc[j] = "gb_launch" /\ pc'[j] = "newPage")
               => /\ hstate[b'[j]] = "none"
                  /\ browser' = b'[j]
         /\ (b'[j] # b[j] /\ b'[j] # Null) => hstate'[b'[j]] \in {"up", "frozen"}]_vars

\* C8 witness: a job has just ended its crash handling (failed, its page
\* still to close, its browser dead, the shared handle absent) and another
\* job's getBrowser call is launching the replacement.
C8_Witness ==
    \E j, k \in Jobs :
        /\ pc[j] = "page_close" /\ res[j] = "500"
        /\ hstate[b[j]] = "dead"
        /\ browser = Null
        /\ pc[k] = "gb_launch"

\* C9: a job that holds a slot can always take a further step towards
\* releaseSlot, whatever the renderer does.
C9_AdmittedJobNeverStuck == \A j \in Holders : ENABLED JobNext(j)

\* C10: a job answered 504 (QUEUE_TIMEOUT) has returned and has touched
\* nothing: no browser obtained or closed, no page, no font CSS read, no
\* releaseSlot call.
C10_TimedOutJobTouchesNothing ==
    \A j \in Jobs :
        res[j] = "504" =>
            /\ pc[j] = "done"
            /\ b[j] = Null /\ closing[j] = Null /\ page[j] = Null
            /\ fontCSS[j] = Unset
            /\ released[j] = 0

\* C10 witness: a job was answered 504 and its ticket has since been
\* taken from the queue by a releaseSlot.
C10_Witness ==
    \E j \in Jobs : res[j] = "504" /\ ~InQueue(j)

\* C11: when no admission timer fires, a queued job is granted its slot
\* only in a step in which another job, holding a slot, calls releaseSlot;
\* and when every admitted job goes on to release, every queued job is
\* eventually granted a slot and ends with a response.
C11_QueuedGrantedOnReleaseAndCompletes ==
    /\ [][\A j \in Jobs :
             (pc[j] = "waiting" /\ pc'[j] = "admitted")
             => \E k \in Holders \ {j} : released'[k] = released[k] + 1]_vars
    /\ \A j \in Jobs :
          (pc[j] = "waiting") ~> (pc[j] = "done" /\ res[j] \in {"200", "500"})

\* C11 witness: three jobs for one slot: one has released, the job that
\* queued first holds the transferred slot and is printing its PDF, the
\* job that queued second still waits.
C11_Witness ==
    \E j, k, l \in Jobs :
        /\ pc[l] = "done" /\ released[l] = 1
        /\ ticket[j] > 0 /\ pc[j] = "pdf"
        /\ pc[k] = "waiting" /\ ticket[k] > ticket[j]

\* C12: the step that rejects a request for a wrong or missing x-api-key
\* (401) or for missing html (400) changes neither activeJobs, waitQueue,
\* the browser handle nor the font cache, and the rejected job holds no
\* slot and no ticket: it has returned.
Rejected(j) == res[j] = "none" /\ res'[j] \in {"401", "400"}
C12_RejectionTouchesNothing ==
    [][\A j \in Jobs :
         Rejected(j) =>
             /\ UNCHANGED <<activeJobs, waitQueue, browser, hstate,
                            fontCSSCache, warmFetch>>
             /\ pc[j] = "idle" /\ pc'[j] = "done"
             /\ ~InQueue(j)' /\ ticket'[j] = 0 /\ released'[j] = 0
             /\ \A k \in Jobs \ {j} : pc'[k] = pc[k]]_vars

\* C12 witness: one request was rejected with 401 and one with 400 while
\* every slot is taken and a third request holds one.
C12_Witness ==
    \E j, k \in Jobs :
        /\ res[j] = "401" /\ res[k] = "400"
        /\ activeJobs = MAX_CONCURRENT /\ Holders # {}

\* C13: a populated cache entry never changes: no step replaces or removes
\* the value stored for a key.
C13_PopulatedEntryStable ==
    [][\A k \in FONT_URLS :
         CacheHas(k) => fontCSSCache'[k] = fontCSSCache[k]]_vars

\* C14: when the fetch a job's getFontCSS call awaits fails, the cache
\* holds the empty value for that key afterwards, and the call returns the
\* empty value and goes on to setContent without a second fetch.
FetchFailed(j) ==
    pc[j] = "fetchFont" /\ pc'[j] # "fetchFont" /\ fontCSS'[j] = Empty
C14_FailedFetchCachesEmpty ==
    [][\A j \in Jobs :
         FetchFailed(j) =>
             /\ fontCSSCache'[fontFamily[j]] = Empty
             /\ pc'[j] = "setContent"]_vars

\* C15: the catch block run for an error that is not crash-class answers
\* 500 and goes to the finally block with the shared handle as it was,
\* neither closed nor absent; and a getBrowser call that finds the stored
\* handle connected returns that handle and launches nothing.
FailsNonCrash(j) == pc[j] \in PageOps \cup {"gb_launch"} /\ catch(j, "other")
C15_NonCrashFailureKeepsHandle ==
    [][\A j \in Jobs :
         /\ FailsNonCrash(j) =>
                /\ UNCHANGED <<browser, hstate>>
                /\ res'[j] = "500"
                /\ pc'[j] \in {"page_close", "done"}
         /\ (pc[j] = "admitted" /\ pc'[j] # "admitted" /\ ~NeedsLaunch) =>
                /\ pc'[j] = "newPage" /\ b'[j] = browser
                /\ UNCHANGED <<browser, hstate>>]_vars

\* C15 witness: a job failed without a crash-class error and is closing
\* its page, the shared handle is still the browser it used and is up, and
\* the next job's getBrowser call has returned that same handle.
C15_Witness ==
    \E j, k \in Jobs :
        /\ pc[j] = "page_close" /\ res[j] = "500"
        /\ browser = b[j] /\ hstate[browser] = "up"
        /\ pc[k] = "newPage" /\ b[k] = browser /\ ticket[k] > 0

\* C16: in every state /health reports as activeJobs the number of jobs
\* holding a slot, and as queued the number of jobs blocked waiting for
\* one, not counting jobs whose wait has timed out.
C16_HealthIsCurrent ==
    /\ health.activeJobs = Cardinality(Holders)
    /\ health.queued = Cardinality(Waiting)

\* C17: a job that opened a page leaves its try block, with a PDF (200) or
\* a failure (500), only into the close of that page, and calls
\* releaseSlot only from there: page.close() is called on every exit path
\* and before releaseSlot.
Exits(j) == res[j] = "none" /\ res'[j] \in {"200", "500"}
Releases(j) == released'[j] = released[j] + 1
C17_PageClosedBeforeRelease ==
    [][\A j \in Jobs :
         /\ (Exits(j) /\ page[j] # Null) =>
                pc'[j] = "page_close" /\ ~Releases(j)
         /\ (Releases(j) /\ page[j] # Null) => pc[j] = "page_close"
         /\ (pc[j] = "page_close" /\ pc'[j] # "page_close") => Releases(j)]_vars

\* C17 witness: one job is closing its page after sending its PDF and
\* another after a failure; neither has released its slot yet.
C17_Witness ==
    \E j, k \in Jobs :
        /\ pc[j] = "page_close" /\ res[j] = "200" /\ released[j] = 0
        /\ pc[k] = "page_close" /\ res[k] = "500" /\ released[k] = 0

\* C18: a releaseSlot call that finds waitQueue non-empty removes exactly
\* its oldest ticket, resolves it (a job still waiting on it is admitted)
\* and leaves activeJobs unchanged; a call that finds it empty decrements
\* activeJobs by one and leaves waitQueue unchanged.
C18_ReleaseTransfersOrDecrements ==
    [][\A j \in Jobs :
         Releases(j) =>
             IF Len(waitQueue) > 0
             THEN /\ waitQueue' = Tail(waitQueue)
                  /\ activeJobs' = activeJobs
                  /\ pc[Head(waitQueue)] = "waiting"
                        => pc'[Head(waitQueue)] = "admitted"
                  /\ \A k \in Jobs \ {j, Head(waitQueue)} : pc'[k] = pc[k]
             ELSE /\ activeJobs' = activeJobs - 1
                  /\ waitQueue' = waitQueue
                  /\ \A k \in Jobs \ {j} : pc'[k] = pc[k]]_vars

\* C18 witness: one job has released into a queue of two: the older
\* ticket's job has just been admitted, the younger still waits, and every
\* slot is still counted as taken.
C18_Witness ==
    \E j, k, l \in Jobs :
        /\ pc[l] = "done" /\ released[l] = 1
        /\ pc[j] = "admitted" /\ ticket[j] > 0
        /\ pc[k] = "waiting" /\ waitQueue = <<k>>
        /\ activeJobs = MAX_CONCURRENT

\* C19: every handle getBrowser returns is connected when it is returned;
\* a call that finds the stored handle disconnected goes on to close that
\* handle and then to launch, and the handle the launch yields is a new
\* one, stored in place of the old and returned.
Calls(p) ==
    LET at == IF p \in Jobs THEN "admitted" ELSE "idle"
    IN  pc[p] = at /\ pc'[p] # at
C19_DisconnectedHandleReplaced ==
    [][/\ \A j \in Jobs :
            (b'[j] # b[j] /\ b'[j] # Null) =>
                /\ hstate'[b'[j]] \in {"up", "frozen"}
                /\ browser' = b'[j]
       /\ \A p \in Callers :
            /\ (Calls(p) /\ browser # Null /\ ~Connected(browser)) =>
                   pc'[p] = "gb_close" /\ closing'[p] = browser
            /\ (pc[p] = "gb_close" /\ pc'[p] # "gb_close") =>
                   pc'[p] = "gb_launch" /\ hstate'[closing[p]] = "dead"
            /\ (pc[p] = "gb_launch" /\ pc'[p] # "gb_launch"
                                    /\ browser' # browser) =>
                   /\ browser' # Null
                   /\ hstate[browser'] = "none" /\ hstate'[browser'] = "up"]_vars

\* C19 witness: a render job's getBrowser call found the stored handle
\* disconnected and is closing it before launching the replacement.
C19_Witness ==
    \E j \in Jobs :
        /\ pc[j] = "gb_close" /\ closing[j] = browser
        /\ hstate[browser] = "dead"

\* C20: a puppeteer.launch that rejects inside a job's getBrowser call
\* stores no handle (the shared handle stays as it was, no browser comes
\* into being, the job receives none); the job answers 500 and calls
\* releaseSlot, at once or after the crash handling's browser.close(); and
\* a getBrowser call that finds no connected handle launches again.
LaunchFailed(j) == pc[j] = "gb_launch" /\ pc'[j] \notin {"gb_launch", "newPage"}
C20_LaunchFailurePropagates ==
    [][\A j \in Jobs :
         /\ LaunchFailed(j) =>
                /\ UNCHANGED <<browser, hstate>>
                /\ b'[j] = Null /\ page'[j] = Null
                /\ \/ pc'[j] = "done" /\ res'[j] = "500" /\ Releases(j)
                   \/ /\ pc'[j] = "catch_close" /\ ~Releases(j)
                      /\ browser # Null /\ closing'[j] = browser
         /\ (pc[j] = "catch_close" /\ pc'[j] # "catch_close" /\ page[j] = Null) =>
                pc'[j] = "done" /\ res'[j] = "500" /\ Releases(j)
         /\ (Calls(j) /\ NeedsLaunch) => pc'[j] \in {"gb_close", "gb_launch"}]_vars

\* C20 witness: no browser has ever come up; one job's launch failed, it
\* answered 500 and released its slot, and the next job's getBrowser call
\* is launching again.
C20_Witness ==
    /\ browser = Null /\ \A h \in Handles : hstate[h] = "none"
    /\ \E j, k \in Jobs :
          /\ pc[j] = "done" /\ res[j] = "500" /\ released[j] = 1
          /\ pc[k] = "gb_launch"

\* C21: a failed fetch leaves the cache as it was, so a getFontCSS call
\* made for a key after the warm-up's fetch for it has failed (the key is
\* still absent) starts a new fetch; and a fetch that succeeds populates
\* the key with the text it fetched.
GetsFont(j, k) ==
    pc[j] = "setup" /\ pc'[j] # "setup" /\ fontFamily'[j] = k /\ WantsFont(k)
FetchSucceeded(j) ==
    pc[j] = "fetchFont" /\ pc'[j] # "fetchFont" /\ fontCSS'[j] \in CssTexts
C21_RefetchAfterFailure ==
    [][\A j \in Jobs :
         /\ FetchFailed(j) => fontCSSCache' = fontCSSCache
         /\ \A k \in FONT_URLS :
               (GetsFont(j, k) /\ warmFetch[k] = "done" /\ ~CacheHas(k))
               => pc'[j] = "fetchFont" /\ fontCSSCache' = fontCSSCache
         /\ FetchSucceeded(j) =>
               fontCSSCache'[fontFamily[j]] = fontCSS'[j]]_vars

\* C21 witness: the warm-up's fetch for a key has failed (it is done and
\* the key is absent) and a job's getFontCSS call for that key has a
\* fetch in flight.
C21_Witness ==
    \E j \in Jobs :
        /\ pc[j] = "fetchFont"
        /\ warmFetch[fontFamily[j]] = "done"
        /\ ~CacheHas(fontFamily[j])

\* C22: whenever waitQueue is non-empty activeJobs equals MAX_CONCURRENT,
\* and activeJobs is never negative.
C22_QueueOnlyWhenFull ==
    /\ Len(waitQueue) > 0 => activeJobs = MAX_CONCURRENT
    /\ activeJobs >= 0

\* C22 witness: tickets are queued, every slot is counted as taken, and a
\* job has released into the queue (no job holds a slot any more).
C22_Witness ==
    /\ Len(waitQueue) > 0
    /\ activeJobs = MAX_CONCURRENT
    /\ Holders = {}
    /\ \E j \in Jobs : released[j] = 1

\* C23: a job that fails with a crash-class error on the handle it was
\* using never sets out to close, and never clears from the shared
\* variable, a different handle that another job is using.
CrashCaught(j) == pc[j] # "catch_close" /\ pc'[j] = "catch_close"
UsedByOthers(j, h) == \E k \in Jobs \ {j} : b[k] = h
C23_CrashSparesNewerHandle ==
    [][\A j \in Jobs :
         b[j] # Null =>
            /\ (CrashCaught(j) /\ closing'[j] # b[j])
                  => ~UsedByOthers(j, closing'[j])
            /\ (CrashHandled(j) /\ browser # Null /\ browser # b[j]
                                /\ browser' # browser)
                  => ~UsedByOthers(j, browser)]_vars

\* C24: every browser that was launched and is still running is the one
\* the shared variable refers to, so at most one browser runs at a time.
Live == {h \in Handles : hstate[h] \in {"up", "frozen"}}
C24_NoOrphanedBrowser ==
    /\ \A h \in Live : browser = h
    /\ Cardinality(Live) <= 1

\* C25: on a running browser the pages open at the same time, those of
\* render jobs and that of the font diagnostics, never number more than
\* MAX_CONCURRENT; and no handler has returned leaving its page open.
PagesOpenOn(h) ==
    Cardinality({j \in Jobs : page[j] = h})
    + (IF pc[Debug] \in DebugPageAt /\ b[Debug] = h THEN 1 ELSE 0)
C25_PagesBoundedAndClosed ==
    /\ \A h \in Live : PagesOpenOn(h) <= MAX_CONCURRENT
    /\ pc[Debug] = "dbg_leaked" => b[Debug] \notin Live

====
